---- MODULE Spec2Model ----
(***************************************************************************)
(* Model of the casper-vdb Rust client (src/src/client.rs, error.rs):      *)
(*   - CasperClient::upload_matrix_grpc: validation, chunk planning, the   *)
(*     producer task, the bounded tokio mpsc channel and the transport     *)
(*     that consumes it (specification Spec; SpecFair adds the scheduling  *)
(*     of the producer task and of the transport);                         *)
(*   - the binary decoder of CasperClient::search (specification           *)
(*     SpecDecode);                                                        *)
(*   - the request paths search, get_vector, handle_response and           *)
(*     handle_empty_response with parse_error_response and                 *)
(*     CasperError::from_status (specification SpecHttp).                  *)
(*                                                                         *)
(* Machine integers.  usize and u32 values are kept at their real width.   *)
(* TLC's integers are 32-bit, so a machine word is a natural number        *)
(* written as a little-endian sequence of 16-bit limbs without trailing    *)
(* zero limbs (<<>> is 0, <<65535, 65535>> is u32::MAX).  usize is 32 or   *)
(* 64 bits wide depending on the build target (usizeBits), and arithmetic  *)
(* overflow panics or wraps depending on the build profile                 *)
(* (overflowChecks: on in debug builds, off in release builds).            *)
(***************************************************************************)
EXTENDS Integers, Sequences, FiniteSets, TLC

\* ------------------------------------------------------------------ bounds
MaxDim == 3
MaxFloats == 6
MaxChunkFloats == 4
MaxRecords == 2
MaxBody == 9

\* ------------------------------------------------- program constants
\* tokio::sync::mpsc::channel::<UploadMatrixRequest>(4)
ChannelCapacity == 4
\* the count field: buf[offset..offset + 4]
HeaderBytes == 4
\* one record: 4 + 4 bytes (u32 id, f32 score)
RecordBytes == 4 + 4

\* ------------------------------------------- naturals as 16-bit limbs
Base == 2 ^ 16
Zero == <<>>
One == <<1>>

MinInt(a, b) == IF a < b THEN a ELSE b
MaxInt(a, b) == IF a > b THEN a ELSE b

Limb(a, i) == IF i <= Len(a) THEN a[i] ELSE 0

RECURSIVE Norm(_)
Norm(a) == IF a = <<>> THEN <<>>
           ELSE IF a[Len(a)] = 0 THEN Norm(SubSeq(a, 1, Len(a) - 1))
           ELSE a

RECURSIVE FromInt(_)
FromInt(n) == IF n = 0 THEN <<>> ELSE <<n % Base>> \o FromInt(n \div Base)

\* Only for values below 2^31 (at most two limbs, the upper below 2^15).
ToInt(a) == Limb(a, 1) + Base * Limb(a, 2)

RECURSIVE AddFrom(_, _, _, _)
AddFrom(a, b, i, carry) ==
    IF i > MaxInt(Len(a), Len(b))
    THEN (IF carry = 0 THEN <<>> ELSE <<carry>>)
    ELSE LET t == Limb(a, i) + Limb(b, i) + carry
         IN  <<t % Base>> \o AddFrom(a, b, i + 1, t \div Base)

Add(a, b) == AddFrom(a, b, 1, 0)

RECURSIVE LessFrom(_, _, _)
LessFrom(a, b, i) ==
    IF i = 0 THEN FALSE
    ELSE IF Limb(a, i) # Limb(b, i) THEN Limb(a, i) < Limb(b, i)
    ELSE LessFrom(a, b, i - 1)

Less(a, b) == LessFrom(a, b, MaxInt(Len(a), Len(b)))
MinBig(a, b) == IF Less(b, a) THEN b ELSE a
MaxBig(a, b) == IF Less(a, b) THEN b ELSE a

\* a - b for a >= b
RECURSIVE SubFrom(_, _, _, _)
SubFrom(a, b, i, borrow) ==
    IF i > Len(a) THEN <<>>
    ELSE LET t == Limb(a, i) - Limb(b, i) - borrow
         IN  IF t < 0 THEN <<t + Base>> \o SubFrom(a, b, i + 1, 1)
                      ELSE <<t>> \o SubFrom(a, b, i + 1, 0)

Sub(a, b) == Norm(SubFrom(a, b, 1, 0))

\* a * k for an integer 0 <= k < 2^15
RECURSIVE MulFrom(_, _, _, _)
MulFrom(a, k, i, carry) ==
    IF i > Len(a)
    THEN (IF carry = 0 THEN <<>> ELSE <<carry>>)
    ELSE LET t == a[i] * k + carry
         IN  <<t % Base>> \o MulFrom(a, k, i + 1, t \div Base)

Mul(a, k) == Norm(MulFrom(a, k, 1, 0))

\* short division: the remainder of the limbs i.. of a by an integer
\* 0 < k < 2^15
RECURSIVE RemFrom(_, _, _)
RemFrom(a, k, i) ==
    IF i > Len(a) THEN 0 ELSE (RemFrom(a, k, i + 1) * Base + a[i]) % k

RECURSIVE QuotFrom(_, _, _)
QuotFrom(a, k, i) ==
    IF i > Len(a) THEN <<>>
    ELSE <<(RemFrom(a, k, i + 1) * Base + a[i]) \div k>> \o QuotFrom(a, k, i + 1)

DivSmall(a, k) == Norm(QuotFrom(a, k, 1))

\* division by a divisor of 2^15 or more, by repeated subtraction
RECURSIVE DivBySub(_, _)
DivBySub(a, b) == IF Less(a, b) THEN Zero ELSE Add(One, DivBySub(Sub(a, b), b))

\* a / b for b > 0
Div(a, b) == IF Len(b) <= 1 /\ Limb(b, 1) < 2 ^ 15
             THEN DivSmall(a, ToInt(b))
             ELSE DivBySub(a, b)

\* ------------------------------------------------ fixed-width words
Limbs(bits) == bits \div 16
Fits(a, bits) == Len(a) <= Limbs(bits)
\* a mod 2^bits
Wrap(a, bits) == Norm(SubSeq(a, 1, MinInt(Len(a), Limbs(bits))))
\* usize::MAX = 2^bits - 1
MaxWord(bits) == SubSeq(<<Base - 1, Base - 1, Base - 1, Base - 1>>, 1, Limbs(bits))
\* isize::MAX = 2^(bits-1) - 1
MaxSigned(bits) ==
    SubSeq(<<Base - 1, Base - 1, Base - 1>>, 1, Limbs(bits) - 1) \o <<2 ^ 15 - 1>>

\* The result of one usize operation whose exact value is x: the wrapped
\* value and whether it overflowed.
Word(x, bits) == [val |-> Wrap(x, bits), ovf |-> ~Fits(x, bits)]

\* `x as u32`
AsU32(a) == Wrap(a, 32)

\* ===================================================== upload_matrix_grpc
VARIABLES
    usizeBits,        \* width of usize on the build target: 32 or 64
    overflowChecks,   \* TRUE: arithmetic overflow panics (debug profile)
    dimension,        \* argument `dimension`
    vectors,          \* argument `vectors`, the flat buffer
    req_chunk_floats, \* argument `chunk_floats`, as requested
    cpc,              \* position of the caller in upload_matrix_grpc
    chunk_floats,     \* `chunk_floats` after the clamp of lines 301-305
    total_chunks,     \* `total_chunks` of line 308
    connOpened,       \* MatrixServiceClient::connect has been attempted
    chanCreated,      \* the mpsc channel exists
    ppc,              \* position of the producer task
    chunk_idx,        \* loop variable of the producer task
    chan,             \* messages buffered in the channel, oldest first
    rxClosed,         \* the receiving half has been closed or dropped
    txDropped,        \* the sending half has been dropped
    produced,         \* history: messages whose send completed
    consumed,         \* history: messages the transport has dequeued
    sendFailed,       \* history: a send of the producer returned Err
    streamEnded,      \* the transport has seen the end of the stream
    result            \* what the call returned

uploadVars == <<dimension, vectors, req_chunk_floats, cpc, chunk_floats,
                total_chunks, connOpened, chanCreated, ppc, chunk_idx, chan,
                rxClosed, txDropped, produced, consumed, sendFailed,
                streamEnded, result>>
buildVars == <<usizeBits, overflowChecks>>
inputVars == <<buildVars, dimension, vectors, req_chunk_floats>>

\* ------------------------------------------- search: the binary decoder
VARIABLES
    buf,          \* the response body, a sequence of bytes
    spc,          \* position of search() in its decoder
    offset,       \* `offset`
    count,        \* `count`
    expected_len, \* `expected_len`
    results,      \* `results`
    loops,        \* iterations of the record loop done so far
    reads,        \* history: the (0-based) indexes of buf read so far
    sresult,      \* what search() returned
    records,      \* history: the records the body was encoded from
    trailing,     \* history: the bytes that follow the encoded records
    wellFormed    \* history: buf = Encode(records) \o trailing

decodeVars == <<buf, spc, offset, count, expected_len, results, loops, reads,
                sresult, records, trailing, wellFormed>>

\* -------------------------------------- HTTP requests: error reporting
VARIABLES
    path,             \* the function under way: a request path or from_status
    hpc,              \* its position
    response_status,  \* the status code (for from_status: its argument)
    response_body,    \* the body text, a sequence of characters
    read_failed,      \* history: reading the body returned an error
    called,           \* history: from_status has been called
    passed,           \* history: the message from_status was called with
    hresult,          \* what the function returned
    bodyKind,         \* history: the shape the body text was written from
    bodyMessage       \* history: the text of its error member, if any

httpVars == <<path, hpc, response_status, response_body, read_failed, called,
              passed, hresult, bodyKind, bodyMessage>>

\* no HTTP request is under way
IdleHttp ==
    /\ path = "none"
    /\ hpc = "idle"
    /\ response_status = 0
    /\ response_body = <<>>
    /\ read_failed = FALSE
    /\ called = FALSE
    /\ passed = <<>>
    /\ hresult = [tag |-> "None"]
    /\ bodyKind = "none"
    /\ bodyMessage = <<>>

MatrixName == "m"
NoResult == [tag |-> "None"]
PointerWidths == {32, 64}

\* The buffer of n floats; every element is distinct so that a dropped,
\* repeated or moved element shows.
RECURSIVE Buffer(_)
Buffer(n) == IF n = 0 THEN <<>> ELSE Append(Buffer(n - 1), 100 + n)
TotalFloats == Len(vectors)

RequestedChunkFloats(bits) ==
    {FromInt(k) : k \in 0..MaxChunkFloats}
        \cup {MaxWord(bits), Sub(MaxWord(bits), One)}

\* ------------------------------------------------------------ planner
\* mutant: validation without the divisibility check
ValidationError_NoDivisibility(dim, len) ==
    IF dim = 0
    THEN [tag |-> "Err", kind |-> "InvalidResponse",
          msg |-> <<"dimension must be greater than 0">>]
    ELSE NoResult

\* lines 287-299: the error returned by validation, or NoResult
ValidationError(dim, len) ==
    IF dim = 0
    THEN [tag |-> "Err", kind |-> "InvalidResponse",
          msg |-> <<"dimension must be greater than 0">>]
    ELSE IF len % dim # 0
    THEN [tag |-> "Err", kind |-> "InvalidResponse",
          msg |-> <<"vector buffer length", len,
                    "is not divisible by dimension", dim>>]
    ELSE NoResult

\* lines 301-305
ClampChunkFloats(cf, dim) == IF Less(cf, FromInt(dim)) THEN FromInt(dim) ELSE cf

\* line 308: (total_floats + chunk_floats - 1) / chunk_floats in usize
\* arithmetic, evaluated left to right; ovf tells whether a step overflowed.
TotalChunks(total_floats, cf, bits) ==
    LET s1 == Word(Add(FromInt(total_floats), cf), bits)
        s2 == IF s1.val = Zero
              THEN [val |-> MaxWord(bits), ovf |-> TRUE]
              ELSE [val |-> Sub(s1.val, One), ovf |-> FALSE]
    IN  [val |-> Div(s2.val, cf), ovf |-> s1.ovf \/ s2.ovf]

\* lines 321-330
HeaderMsg(dim, cf, tc) ==
    [type |-> "Header",
     name |-> MatrixName,
     dimension |-> AsU32(FromInt(dim)),
     total_chunks |-> AsU32(tc),
     max_vectors_per_chunk |-> AsU32(MaxBig(Div(cf, FromInt(dim)), One))]

\* mutant: the end of a chunk is one value short
ChunkRange_OneShort(idx, cf, total_floats, bits, checks) ==
    LET start == Word(Mul(cf, idx), bits)
        sum == Word(Sub(Add(start.val, cf), One), bits)
        end == MinBig(sum.val, FromInt(total_floats))
    IN  [start |-> start.val, end |-> end,
         panics |-> \/ checks /\ (start.ovf \/ sum.ovf)
                    \/ Less(end, start.val)]

\* lines 337-339: the bounds of chunk idx; panics tells whether computing
\* them or slicing the buffer panics.
ChunkRange(idx, cf, total_floats, bits, checks) ==
    LET start == Word(Mul(cf, idx), bits)
        sum == Word(Add(start.val, cf), bits)
        end == MinBig(sum.val, FromInt(total_floats))
    IN  [start |-> start.val, end |-> end,
         panics |-> \/ checks /\ (start.ovf \/ sum.ovf)
                    \/ Less(end, start.val)]

\* lines 341-347
DataMsg(idx, cf, vectors_clone, bits) ==
    LET r == ChunkRange(idx, cf, Len(vectors_clone), bits, FALSE)
    IN  [type |-> "Data",
         chunk_index |-> AsU32(FromInt(idx)),
         vector |-> SubSeq(vectors_clone, ToInt(r.start) + 1, ToInt(r.end))]

\* ---------------------------------------------------------- channel
\* mutant: an unbounded channel
HasCapacity_Unbounded(q) == TRUE
\* mutant: a channel that hands out the newest message first
Enqueue_Lifo(q, m) == <<m>> \o q

\* mpsc::channel(4): a send completes only while a slot is free
HasCapacity(q) == Len(q) < ChannelCapacity
\* the channel is FIFO
Enqueue(q, m) == Append(q, m)

\* the aggregate response of the remote side: (total_vectors, total_chunks)
RemoteCounts == {<<0, 0>>, <<2, 1>>}

GrpcError == [tag |-> "Err", kind |-> "Grpc", msg |-> <<"status">>]

\* ------------------------------------------------------------- caller
InitUpload ==
    /\ dimension \in 0..MaxDim
    /\ vectors \in {Buffer(n) : n \in 0..MaxFloats}
    /\ req_chunk_floats \in RequestedChunkFloats(usizeBits)
    /\ cpc = "start"
    /\ chunk_floats = Zero
    /\ total_chunks = Zero
    /\ connOpened = FALSE
    /\ chanCreated = FALSE
    /\ ppc = "none"
    /\ chunk_idx = 0
    /\ chan = <<>>
    /\ rxClosed = FALSE
    /\ txDropped = FALSE
    /\ produced = <<>>
    /\ consumed = <<>>
    /\ sendFailed = FALSE
    /\ streamEnded = FALSE
    /\ result = NoResult

\* lines 287-308: validation, clamp and chunk count (no await in between)
StartUpload ==
    /\ cpc = "start"
    /\ LET err == ValidationError(dimension, TotalFloats)
           cf == ClampChunkFloats(req_chunk_floats, dimension)
           tc == TotalChunks(TotalFloats, cf, usizeBits)
       IN  IF err # NoResult
           THEN /\ cpc' = "done"
                /\ result' = err
                /\ UNCHANGED <<chunk_floats, total_chunks>>
           ELSE IF tc.ovf /\ overflowChecks
           THEN /\ cpc' = "panicked"
                /\ UNCHANGED <<result, chunk_floats, total_chunks>>
           ELSE /\ cpc' = "connecting"
                /\ chunk_floats' = cf
                /\ total_chunks' = tc.val
                /\ UNCHANGED result
    /\ UNCHANGED <<httpVars, decodeVars, inputVars, connOpened,
                   chanCreated, ppc, chunk_idx, chan, rxClosed, txDropped,
                   produced, consumed, sendFailed, streamEnded>>

\* lines 310-312: connect succeeds
ConnectOk ==
    /\ cpc = "connecting"
    /\ cpc' = "connected"
    /\ connOpened' = TRUE
    /\ UNCHANGED <<httpVars, decodeVars, inputVars, chunk_floats,
                   total_chunks, chanCreated, ppc, chunk_idx, chan, rxClosed,
                   txDropped, produced, consumed, sendFailed, streamEnded,
                   result>>

\* lines 310-312: connect fails, map_err(Grpc) and `?`
ConnectFail ==
    /\ cpc = "connecting"
    /\ cpc' = "done"
    /\ connOpened' = TRUE
    /\ result' = GrpcError
    /\ UNCHANGED <<httpVars, decodeVars, inputVars, chunk_floats,
                   total_chunks, chanCreated, ppc, chunk_idx, chan, rxClosed,
                   txDropped, produced, consumed, sendFailed, streamEnded>>

\* lines 314-358: create the channel, spawn the producer, hand the
\* receiver to the transport and start awaiting the response
OpenStream ==
    /\ cpc = "connected"
    /\ cpc' = "awaiting"
    /\ chanCreated' = TRUE
    /\ ppc' = "header"
    /\ UNCHANGED <<httpVars, decodeVars, inputVars, chunk_floats,
                   total_chunks, connOpened, chunk_idx, chan, rxClosed,
                   txDropped, produced, consumed, sendFailed, streamEnded,
                   result>>

\* lines 356-371: the response arrives; the call returns Ok and the request
\* (with the receiver) is dropped
RespondOk ==
    /\ cpc = "awaiting"
    /\ \E r \in RemoteCounts :
          result' = [tag |-> "Ok", success |-> TRUE,
                     total_vectors |-> r[1], total_chunks |-> r[2],
                     message |-> <<"Successfully uploaded", r[1],
                                   "vectors in", r[2], "chunks">>]
    /\ cpc' = "done"
    /\ rxClosed' = TRUE
    /\ chan' = <<>>
    /\ UNCHANGED <<httpVars, decodeVars, inputVars, chunk_floats,
                   total_chunks, connOpened, chanCreated, ppc, chunk_idx,
                   txDropped, produced, consumed, sendFailed, streamEnded>>

\* lines 356-359: the await fails, map_err(Grpc) and `?`
RespondErr ==
    /\ cpc = "awaiting"
    /\ result' = GrpcError
    /\ cpc' = "done"
    /\ rxClosed' = TRUE
    /\ chan' = <<>>
    /\ UNCHANGED <<httpVars, decodeVars, inputVars, chunk_floats,
                   total_chunks, connOpened, chanCreated, ppc, chunk_idx,
                   txDropped, produced, consumed, sendFailed, streamEnded>>

\* the caller drops the future of upload_matrix_grpc at one of its awaits
CallerAbandon ==
    /\ cpc \in {"connecting", "awaiting"}
    /\ cpc' = "abandoned"
    /\ rxClosed' = chanCreated
    /\ chan' = <<>>
    /\ UNCHANGED <<httpVars, decodeVars, inputVars, chunk_floats,
                   total_chunks, connOpened, chanCreated, ppc, chunk_idx,
                   txDropped, produced, consumed, sendFailed, streamEnded,
                   result>>

\* ---------------------------------------------------------- transport
\* the transport polls ReceiverStream and takes the oldest message
ConsumerRecv ==
    /\ cpc = "awaiting"
    /\ ~rxClosed
    /\ chan # <<>>
    /\ consumed' = Append(consumed, Head(chan))
    /\ chan' = Tail(chan)
    /\ UNCHANGED <<httpVars, decodeVars, inputVars, cpc, chunk_floats,
                   total_chunks, connOpened, chanCreated, ppc, chunk_idx,
                   rxClosed, txDropped, produced, sendFailed, streamEnded,
                   result>>

\* the transport polls an empty channel whose sender is gone: end of stream
ConsumerSeesEnd ==
    /\ cpc = "awaiting"
    /\ ~rxClosed
    /\ ~streamEnded
    /\ chan = <<>>
    /\ txDropped
    /\ streamEnded' = TRUE
    /\ UNCHANGED <<httpVars, decodeVars, inputVars, cpc, chunk_floats,
                   total_chunks, connOpened, chanCreated, ppc, chunk_idx, chan,
                   rxClosed, txDropped, produced, consumed, sendFailed, result>>

\* the stream fails: the transport drops the receiver while the caller is
\* still awaiting
TransportDropsStream ==
    /\ cpc = "awaiting"
    /\ ~rxClosed
    /\ rxClosed' = TRUE
    /\ chan' = <<>>
    /\ UNCHANGED <<httpVars, decodeVars, inputVars, cpc, chunk_floats,
                   total_chunks, connOpened, chanCreated, ppc, chunk_idx,
                   txDropped, produced, consumed, sendFailed, streamEnded,
                   result>>

\* ----------------------------------------------------------- producer
\* mutant: a loop that stops one chunk early
LoopHead_StopsEarly(idx) ==
    IF Less(FromInt(idx + 1), total_chunks) THEN "chunks" ELSE "done"

\* line 336: where the producer goes once chunk idx is the next to send
LoopHead(idx) == IF Less(FromInt(idx), total_chunks) THEN "chunks" ELSE "done"

\* lines 321-333: tx.send(header_msg).await returns Ok
ProducerSendHeader ==
    /\ ppc = "header"
    /\ ~rxClosed
    /\ HasCapacity(chan)
    /\ LET m == HeaderMsg(dimension, chunk_floats, total_chunks)
       IN  /\ chan' = Enqueue(chan, m)
           /\ produced' = Append(produced, m)
    /\ ppc' = LoopHead(0)
    /\ txDropped' = (LoopHead(0) = "done")
    /\ UNCHANGED <<httpVars, decodeVars, inputVars, cpc, chunk_floats,
                   total_chunks, connOpened, chanCreated, chunk_idx, rxClosed,
                   consumed, sendFailed, streamEnded, result>>

\* lines 331-333: tx.send(header_msg).await returns Err: return
ProducerFailHeader ==
    /\ ppc = "header"
    /\ rxClosed
    /\ ppc' = "done"
    /\ sendFailed' = TRUE
    /\ txDropped' = TRUE
    /\ UNCHANGED <<httpVars, decodeVars, inputVars, cpc, chunk_floats,
                   total_chunks, connOpened, chanCreated, chunk_idx, chan,
                   rxClosed, produced, consumed, streamEnded, result>>

\* mutant: try_send instead of send().await, the loop is left when the
\* channel is full
ProducerSendData_TrySend ==
    /\ ppc = "chunks"
    /\ ~rxClosed
    /\ LET m == DataMsg(chunk_idx, chunk_floats, vectors, usizeBits)
       IN  IF HasCapacity(chan)
           THEN /\ chan' = Enqueue(chan, m)
                /\ produced' = Append(produced, m)
                /\ chunk_idx' = chunk_idx + 1
                /\ ppc' = LoopHead(chunk_idx + 1)
                /\ txDropped' = (LoopHead(chunk_idx + 1) = "done")
           ELSE /\ ppc' = "done"
                /\ txDropped' = TRUE
                /\ UNCHANGED <<chan, produced, chunk_idx>>
    /\ UNCHANGED <<httpVars, decodeVars, inputVars, cpc, chunk_floats,
                   total_chunks, connOpened, chanCreated, rxClosed, consumed,
                   sendFailed, streamEnded, result>>

\* mutant: a clone of the sender outlives the producer, so the sending end
\* is not released when the loop ends
ProducerSendData_KeepsSender ==
    /\ ppc = "chunks"
    /\ LET r == ChunkRange(chunk_idx, chunk_floats, TotalFloats, usizeBits,
                           overflowChecks)
           m == DataMsg(chunk_idx, chunk_floats, vectors, usizeBits)
       IN  IF r.panics
           THEN /\ ppc' = "panicked"
                /\ txDropped' = TRUE
                /\ UNCHANGED <<chan, produced, chunk_idx>>
           ELSE /\ ~rxClosed
                /\ HasCapacity(chan)
                /\ chan' = Enqueue(chan, m)
                /\ produced' = Append(produced, m)
                /\ chunk_idx' = chunk_idx + 1
                /\ ppc' = LoopHead(chunk_idx + 1)
                /\ txDropped' = FALSE
    /\ UNCHANGED <<httpVars, decodeVars, inputVars, cpc, chunk_floats,
                   total_chunks, connOpened, chanCreated, rxClosed, consumed,
                   sendFailed, streamEnded, result>>

\* lines 336-352: slice chunk chunk_idx and tx.send(msg).await returns Ok
ProducerSendData ==
    /\ ppc = "chunks"
    /\ LET r == ChunkRange(chunk_idx, chunk_floats, TotalFloats, usizeBits,
                           overflowChecks)
           m == DataMsg(chunk_idx, chunk_floats, vectors, usizeBits)
       IN  IF r.panics
           THEN /\ ppc' = "panicked"
                /\ txDropped' = TRUE
                /\ UNCHANGED <<chan, produced, chunk_idx>>
           ELSE /\ ~rxClosed
                /\ HasCapacity(chan)
                /\ chan' = Enqueue(chan, m)
                /\ produced' = Append(produced, m)
                /\ chunk_idx' = chunk_idx + 1
                /\ ppc' = LoopHead(chunk_idx + 1)
                /\ txDropped' = (LoopHead(chunk_idx + 1) = "done")
    /\ UNCHANGED <<httpVars, decodeVars, inputVars, cpc, chunk_floats,
                   total_chunks, connOpened, chanCreated, rxClosed, consumed,
                   sendFailed, streamEnded, result>>

\* mutant: the producer ignores the failed send and goes on to the next chunk
ProducerFailData_Continue ==
    /\ ppc = "chunks"
    /\ rxClosed
    /\ chunk_idx' = chunk_idx + 1
    /\ ppc' = IF Less(FromInt(chunk_idx + 1), total_chunks) THEN "chunks" ELSE "done"
    /\ sendFailed' = TRUE
    /\ txDropped' = ~Less(FromInt(chunk_idx + 1), total_chunks)
    /\ UNCHANGED <<httpVars, decodeVars, inputVars, cpc, chunk_floats,
                   total_chunks, connOpened, chanCreated, chan,
                   rxClosed, produced, consumed, streamEnded, result>>

\* lines 349-351: tx.send(msg).await returns Err: break
ProducerFailData ==
    /\ ppc = "chunks"
    /\ rxClosed
    /\ ~ChunkRange(chunk_idx, chunk_floats, TotalFloats, usizeBits,
                   overflowChecks).panics
    /\ ppc' = "done"
    /\ sendFailed' = TRUE
    /\ txDropped' = TRUE
    /\ UNCHANGED <<httpVars, decodeVars, inputVars, cpc, chunk_floats,
                   total_chunks, connOpened, chanCreated, chunk_idx, chan,
                   rxClosed, produced, consumed, streamEnded, result>>

\* ------------------------------------------------------ specification
vars == <<buildVars, uploadVars, decodeVars, httpVars>>

\* search() is not running
IdleDecode ==
    /\ buf = <<>>
    /\ spc = "idle"
    /\ offset = 0
    /\ count = Zero
    /\ expected_len = Zero
    /\ results = <<>>
    /\ loops = 0
    /\ reads = {}
    /\ sresult = NoResult
    /\ records = <<>>
    /\ trailing = <<>>
    /\ wellFormed = FALSE

Init ==
    /\ usizeBits \in PointerWidths
    /\ overflowChecks \in BOOLEAN
    /\ InitUpload
    /\ IdleDecode
    /\ IdleHttp

Next ==
    \/ StartUpload
    \/ ConnectOk
    \/ ConnectFail
    \/ OpenStream
    \/ RespondOk
    \/ RespondErr
    \/ CallerAbandon
    \/ ConsumerRecv
    \/ ConsumerSeesEnd
    \/ TransportDropsStream
    \/ ProducerSendHeader
    \/ ProducerFailHeader
    \/ ProducerSendData
    \/ ProducerFailData

Spec == Init /\ [][Next]_vars

\* The producer is a task of its own on the runtime (tokio::spawn, line
\* 319), which polls it again whenever its send can complete or fail; the
\* transport takes a message that stays available.
ProducerStep ==
    \/ ProducerSendHeader
    \/ ProducerFailHeader
    \/ ProducerSendData
    \/ ProducerFailData

\* ENABLED <<ProducerStep>>_vars as a state predicate: a producer at a send
\* can step when the channel is closed (the send fails) or has a free slot
\* (the send completes), a producer in its loop also when slicing panics
ProducerEnabled ==
    /\ ppc \in {"header", "chunks"}
    /\ \/ rxClosed
       \/ HasCapacity(chan)
       \/ /\ ppc = "chunks"
          /\ ChunkRange(chunk_idx, chunk_floats, TotalFloats, usizeBits,
                        overflowChecks).panics

\* WF_vars(ProducerStep), with ENABLED written as ProducerEnabled
ProducerFair == []<>~ProducerEnabled \/ []<><<ProducerStep>>_vars

SpecFair ==
    /\ Init
    /\ [][Next]_vars
    /\ ProducerFair
    /\ WF_vars(ConsumerRecv)

\* ======================================================= search decoder
\* size_of::<SearchResult>(): u32 id, f32 score
SearchResultSize == 4 + 4

\* mutant: the four bytes read in big-endian order
FromLeBytes_BigEndian(b) == Norm(<<b[4] + 256 * b[3], b[2] + 256 * b[1]>>)

\* u32::from_le_bytes
FromLeBytes(b) == Norm(<<b[1] + 256 * b[2], b[3] + 256 * b[4]>>)
\* f32::from_le_bytes: the float with these bytes as its bit pattern
F32FromLeBytes(b) == [bits |-> Norm(<<b[1] + 256 * b[2], b[3] + 256 * b[4]>>)]
\* lines 176-184: the cursor advances by 4 + 4 bytes per record
RecordStride == 4 + 4

\* the wire format: u32::to_le_bytes / f32::to_le_bytes
ToLeBytes(v) == <<Limb(v, 1) % 256, Limb(v, 1) \div 256,
                  Limb(v, 2) % 256, Limb(v, 2) \div 256>>

RECURSIVE EncodeRecords(_)
EncodeRecords(rs) ==
    IF rs = <<>> THEN <<>>
    ELSE ToLeBytes(Head(rs).id) \o ToLeBytes(Head(rs).score.bits)
             \o EncodeRecords(Tail(rs))

\* the wire format: count, then the records
Encode(rs) == ToLeBytes(FromInt(Len(rs))) \o EncodeRecords(rs)

\* buf[from .. from + 4], with 0-based `from`
Slice4(b, from) == SubSeq(b, from + 1, from + 4)

\* line 165: 4 + count * (4 + 4) in usize arithmetic
ExpectedLen(c, bits) ==
    LET m == Word(Mul(c, RecordBytes), bits)
        e == Word(Add(FromInt(HeaderBytes), m.val), bits)
    IN  [val |-> e.val, ovf |-> m.ovf \/ e.ovf]

\* line 174: Vec::with_capacity(count) panics with "capacity overflow" when
\* the allocation would exceed isize::MAX bytes
AllocPanics(c, bits) == Less(MaxSigned(bits), Mul(c, SearchResultSize))

TooShortError ==
    [tag |-> "Err", kind |-> "InvalidResponse",
     msg |-> <<"binary search response too short (missing count)">>]
TruncatedError(expected, got) ==
    [tag |-> "Err", kind |-> "InvalidResponse",
     msg |-> <<"binary search response truncated: expected at least",
               expected, "bytes, got", got>>]

\* ------------------------------------------------------ response bodies
IdSamples == {Zero, <<772, 258>>, <<65535, 65535>>}
\* bit patterns of 0.0, 1.0 and a NaN with a payload
ScoreSamples == {[bits |-> Zero], [bits |-> <<0, 16256>>], [bits |-> <<1, 32704>>]}
RecordSamples == {[id |-> i, score |-> f] : i \in IdSamples, f \in ScoreSamples}
TrailingSamples == {<<>>, <<0>>, <<255, 7, 1>>}
\* 0, 1, 2, 2^29, 2^29 + 1, 2^31 and u32::MAX
CountSamples == {Zero, <<1>>, <<2>>, <<0, 8192>>, <<1, 8192>>, <<0, 32768>>,
                 <<65535, 65535>>}

RECURSIVE Filler(_)
Filler(n) == IF n = 0 THEN <<>> ELSE Append(Filler(n - 1), (37 * n) % 256)

RecordSeqs == UNION {[1..n -> RecordSamples] : n \in 0..MaxRecords}

\* a body encoded from records, possibly followed by more bytes
InitWellFormed ==
    /\ records \in RecordSeqs
    /\ trailing \in TrailingSamples
    /\ buf = Encode(records) \o trailing
    /\ wellFormed = TRUE

\* any other body: shorter than the count field, or a count field followed
\* by some bytes
InitArbitrary ==
    /\ records = <<>>
    /\ trailing = <<>>
    /\ wellFormed = FALSE
    /\ buf \in {Filler(n) : n \in 0..(HeaderBytes - 1)}
               \cup {ToLeBytes(c) \o Filler(n) : c \in CountSamples, n \in 0..MaxBody}

InitDecode ==
    /\ InitWellFormed \/ InitArbitrary
    /\ spc = "start"
    /\ offset = 0
    /\ count = Zero
    /\ expected_len = Zero
    /\ results = <<>>
    /\ loops = 0
    /\ reads = {}
    /\ sresult = NoResult

\* ---------------------------------------------------------------- steps
\* lines 153-157
DecodeCheckHeader ==
    /\ spc = "start"
    /\ IF Len(buf) < HeaderBytes
       THEN /\ spc' = "done"
            /\ sresult' = TooShortError
       ELSE /\ spc' = "count"
            /\ UNCHANGED sresult
    /\ UNCHANGED <<httpVars, buildVars, uploadVars, buf, offset, count, expected_len,
                   results, loops, reads, records, trailing, wellFormed>>

\* lines 159-163
DecodeReadCount ==
    /\ spc = "count"
    /\ IF offset + 4 > Len(buf)
       THEN /\ spc' = "panicked"
            /\ UNCHANGED <<count, offset, reads>>
       ELSE /\ count' = FromLeBytes(Slice4(buf, offset))
            /\ reads' = reads \cup (offset..(offset + 3))
            /\ offset' = offset + 4
            /\ spc' = "length"
    /\ UNCHANGED <<httpVars, buildVars, uploadVars, buf, expected_len, results, loops,
                   sresult, records, trailing, wellFormed>>

\* lines 165-172
DecodeCheckLength ==
    /\ spc = "length"
    /\ LET e == ExpectedLen(count, usizeBits)
       IN  IF e.ovf /\ overflowChecks
           THEN /\ spc' = "panicked"
                /\ UNCHANGED <<expected_len, sresult>>
           ELSE /\ expected_len' = e.val
                /\ IF Less(FromInt(Len(buf)), e.val)
                   THEN /\ spc' = "done"
                        /\ sresult' = TruncatedError(e.val, Len(buf))
                   ELSE /\ spc' = "alloc"
                        /\ UNCHANGED sresult
    /\ UNCHANGED <<httpVars, buildVars, uploadVars, buf, offset, count, results, loops,
                   reads, records, trailing, wellFormed>>

\* line 174
DecodeAlloc ==
    /\ spc = "alloc"
    /\ spc' = IF AllocPanics(count, usizeBits) THEN "panicked" ELSE "loop"
    /\ UNCHANGED <<httpVars, buildVars, uploadVars, buf, offset, count, expected_len,
                   results, loops, reads, sresult, records, trailing,
                   wellFormed>>

\* lines 175-187: one iteration of the loop
DecodeReadRecord ==
    /\ spc = "loop"
    /\ Less(FromInt(loops), count)
    /\ IF offset + RecordStride > Len(buf)
       THEN /\ spc' = "panicked"
            /\ UNCHANGED <<offset, results, loops, reads>>
       ELSE /\ results' = Append(results,
                            [id |-> FromLeBytes(Slice4(buf, offset)),
                             score |-> F32FromLeBytes(Slice4(buf, offset + 4))])
            /\ reads' = reads \cup (offset..(offset + RecordStride - 1))
            /\ offset' = offset + RecordStride
            /\ loops' = loops + 1
            /\ UNCHANGED spc
    /\ UNCHANGED <<httpVars, buildVars, uploadVars, buf, count, expected_len, sresult,
                   records, trailing, wellFormed>>

\* line 189
DecodeFinish ==
    /\ spc = "loop"
    /\ ~Less(FromInt(loops), count)
    /\ spc' = "done"
    /\ sresult' = [tag |-> "Ok", value |-> results]
    /\ UNCHANGED <<httpVars, buildVars, uploadVars, buf, offset, count, expected_len,
                   results, loops, reads, records, trailing, wellFormed>>

\* upload_matrix_grpc is not running
IdleUpload ==
    /\ dimension = 0
    /\ vectors = <<>>
    /\ req_chunk_floats = Zero
    /\ cpc = "idle"
    /\ chunk_floats = Zero
    /\ total_chunks = Zero
    /\ connOpened = FALSE
    /\ chanCreated = FALSE
    /\ ppc = "none"
    /\ chunk_idx = 0
    /\ chan = <<>>
    /\ rxClosed = FALSE
    /\ txDropped = FALSE
    /\ produced = <<>>
    /\ consumed = <<>>
    /\ sendFailed = FALSE
    /\ streamEnded = FALSE
    /\ result = NoResult

InitSearch ==
    /\ usizeBits \in PointerWidths
    /\ overflowChecks \in BOOLEAN
    /\ IdleUpload
    /\ InitDecode
    /\ IdleHttp

NextDecode ==
    \/ DecodeCheckHeader
    \/ DecodeReadCount
    \/ DecodeCheckLength
    \/ DecodeAlloc
    \/ DecodeReadRecord
    \/ DecodeFinish

SpecDecode == InitSearch /\ [][NextDecode]_vars

\* ================================================== HTTP error reporting
\* Text is a sequence of one-character strings.
Quote == "\""
Backslash == "\\"
Digits == {"0", "1", "2", "3", "4", "5", "6", "7", "8", "9"}
Whitespace == {" ", "\n", "\t", "\r"}

\* format!("{}", status): the decimal digits of a u16
DigitChar(d) == <<"0", "1", "2", "3", "4", "5", "6", "7", "8", "9">>[d + 1]
RECURSIVE Decimal(_)
Decimal(n) ==
    IF n < 10 THEN <<DigitChar(n)>>
    ELSE Append(Decimal(n \div 10), DigitChar(n % 10))

\* mutant: every 4xx code without an arm of its own is a Client error
from_status_Client4xx(status, message) ==
    IF status = 404
    THEN [tag |-> "Err", kind |-> "CollectionNotFound", message |-> message]
    ELSE IF status = 405
    THEN [tag |-> "Err", kind |-> "OperationNotAllowed", message |-> message]
    ELSE IF status = 409
    THEN [tag |-> "Err", kind |-> "IndexAlreadyExists"]
    ELSE IF 400 <= status /\ status <= 499
    THEN [tag |-> "Err", kind |-> "Client", status |-> status,
          message |-> message]
    ELSE IF 500 <= status /\ status <= 599
    THEN [tag |-> "Err", kind |-> "Server", status |-> status,
          message |-> message]
    ELSE [tag |-> "Err", kind |-> "Unknown",
          message |-> <<"H", "T", "T", "P", " ">> \o Decimal(status)
                          \o <<":", " ">> \o message]

\* mutant: the server range ends at 598
from_status_Narrow(status, message) ==
    IF status = 400
    THEN [tag |-> "Err", kind |-> "Client", status |-> status,
          message |-> message]
    ELSE IF status = 404
    THEN [tag |-> "Err", kind |-> "CollectionNotFound", message |-> message]
    ELSE IF status = 405
    THEN [tag |-> "Err", kind |-> "OperationNotAllowed", message |-> message]
    ELSE IF status = 409
    THEN [tag |-> "Err", kind |-> "IndexAlreadyExists"]
    ELSE IF 500 <= status /\ status < 599
    THEN [tag |-> "Err", kind |-> "Server", status |-> status,
          message |-> message]
    ELSE [tag |-> "Err", kind |-> "Unknown",
          message |-> <<"H", "T", "T", "P", " ">> \o Decimal(status)
                          \o <<":", " ">> \o message]

\* error.rs lines 57-66: CasperError::from_status
from_status(status, message) ==
    IF status = 400
    THEN [tag |-> "Err", kind |-> "Client", status |-> status,
          message |-> message]
    ELSE IF status = 404
    THEN [tag |-> "Err", kind |-> "CollectionNotFound", message |-> message]
    ELSE IF status = 405
    THEN [tag |-> "Err", kind |-> "OperationNotAllowed", message |-> message]
    ELSE IF status = 409
    THEN [tag |-> "Err", kind |-> "IndexAlreadyExists"]
    ELSE IF 500 <= status /\ status <= 599
    THEN [tag |-> "Err", kind |-> "Server", status |-> status,
          message |-> message]
    ELSE [tag |-> "Err", kind |-> "Unknown",
          message |-> <<"H", "T", "T", "P", " ">> \o Decimal(status)
                          \o <<":", " ">> \o message]

\* ------------------------------------------------- serde_json::from_str
\* A JSON value: t is its type, s the characters of a string, items the
\* elements of an array or the <<name, value>> members of an object.
JsonValue(t, s, items) == [t |-> t, s |-> s, items |-> items]
JsonNull == JsonValue("null", <<>>, <<>>)
ParseFail == [ok |-> FALSE, val |-> JsonNull, next |-> 0]
ParseOk(v, next) == [ok |-> TRUE, val |-> v, next |-> next]

RECURSIVE SkipWs(_, _)
SkipWs(s, i) ==
    IF i <= Len(s) /\ s[i] \in Whitespace THEN SkipWs(s, i + 1) ELSE i

\* the characters of a string up to its closing quote, escapes decoded;
\* i is the position after the opening quote
RECURSIVE ScanString(_, _, _)
ScanString(s, i, acc) ==
    IF i > Len(s) THEN ParseFail
    ELSE IF s[i] = Quote THEN ParseOk(JsonValue("string", acc, <<>>), i + 1)
    ELSE IF s[i] = Backslash
    THEN IF i + 1 <= Len(s) /\ s[i + 1] \in {Quote, Backslash, "/"}
         THEN ScanString(s, i + 2, Append(acc, s[i + 1]))
         ELSE IF i + 1 <= Len(s) /\ s[i + 1] = "n"
         THEN ScanString(s, i + 2, Append(acc, "\n"))
         ELSE IF i + 1 <= Len(s) /\ s[i + 1] = "t"
         THEN ScanString(s, i + 2, Append(acc, "\t"))
         ELSE IF i + 1 <= Len(s) /\ s[i + 1] = "r"
         THEN ScanString(s, i + 2, Append(acc, "\r"))
         ELSE ParseFail
    ELSE IF s[i] \in {"\n", "\t", "\r"} THEN ParseFail
    ELSE ScanString(s, i + 1, Append(acc, s[i]))

RECURSIVE SkipDigits(_, _)
SkipDigits(s, i) ==
    IF i <= Len(s) /\ s[i] \in Digits THEN SkipDigits(s, i + 1) ELSE i

\* a number: -? (0 | [1-9][0-9]*) (. [0-9]+)? ([eE] [+-]? [0-9]+)?
ParseNumber(s, i) ==
    LET a == IF s[i] = "-" THEN i + 1 ELSE i
        b == IF a <= Len(s) /\ s[a] = "0" THEN a + 1 ELSE SkipDigits(s, a)
        hasFrac == b <= Len(s) /\ s[b] = "."
        c == IF hasFrac THEN SkipDigits(s, b + 1) ELSE b
        hasExp == c <= Len(s) /\ s[c] \in {"e", "E"}
        d == IF hasExp /\ c + 1 <= Len(s) /\ s[c + 1] \in {"+", "-"}
             THEN c + 2 ELSE c + 1
        e == IF hasExp THEN SkipDigits(s, d) ELSE c
    IN  IF b = a \/ (hasFrac /\ c = b + 1) \/ (hasExp /\ e = d)
        THEN ParseFail
        ELSE ParseOk(JsonValue("number", SubSeq(s, i, e - 1), <<>>), e)

StartsWith(s, i, w) == i + Len(w) - 1 <= Len(s) /\ SubSeq(s, i, i + Len(w) - 1) = w

ParseLiteral(s, i) ==
    IF StartsWith(s, i, <<"n", "u", "l", "l">>)
    THEN ParseOk(JsonNull, i + 4)
    ELSE IF StartsWith(s, i, <<"t", "r", "u", "e">>)
    THEN ParseOk(JsonValue("bool", <<"t">>, <<>>), i + 4)
    ELSE IF StartsWith(s, i, <<"f", "a", "l", "s", "e">>)
    THEN ParseOk(JsonValue("bool", <<"f">>, <<>>), i + 5)
    ELSE ParseFail

RECURSIVE ParseValue(_, _)
RECURSIVE ParseElements(_, _, _)
RECURSIVE ParseMembers(_, _, _)

\* the value that starts at position i (no whitespace before it)
ParseValue(s, i) ==
    IF i > Len(s) THEN ParseFail
    ELSE IF s[i] = Quote THEN ScanString(s, i + 1, <<>>)
    ELSE IF s[i] = "["
    THEN LET j == SkipWs(s, i + 1)
         IN  IF j <= Len(s) /\ s[j] = "]"
             THEN ParseOk(JsonValue("array", <<>>, <<>>), j + 1)
             ELSE ParseElements(s, j, <<>>)
    ELSE IF s[i] = "{"
    THEN LET j == SkipWs(s, i + 1)
         IN  IF j <= Len(s) /\ s[j] = "}"
             THEN ParseOk(JsonValue("object", <<>>, <<>>), j + 1)
             ELSE ParseMembers(s, j, <<>>)
    ELSE IF s[i] \in Digits \cup {"-"} THEN ParseNumber(s, i)
    ELSE ParseLiteral(s, i)

\* the elements of an array from position i to the closing bracket
ParseElements(s, i, acc) ==
    LET v == ParseValue(s, i)
        j == SkipWs(s, v.next)
    IN  IF ~v.ok \/ j > Len(s) THEN ParseFail
        ELSE IF s[j] = ","
        THEN ParseElements(s, SkipWs(s, j + 1), Append(acc, v.val))
        ELSE IF s[j] = "]"
        THEN ParseOk(JsonValue("array", <<>>, Append(acc, v.val)), j + 1)
        ELSE ParseFail

\* the members of an object from position i to the closing brace
ParseMembers(s, i, acc) ==
    IF i > Len(s) \/ s[i] # Quote THEN ParseFail
    ELSE LET k == ScanString(s, i + 1, <<>>)
             c == SkipWs(s, k.next)
         IN  IF ~k.ok \/ c > Len(s) \/ s[c] # ":" THEN ParseFail
             ELSE LET v == ParseValue(s, SkipWs(s, c + 1))
                      j == SkipWs(s, v.next)
                      m == <<k.val.s, v.val>>
                  IN  IF ~v.ok \/ j > Len(s) THEN ParseFail
                      ELSE IF s[j] = ","
                      THEN ParseMembers(s, SkipWs(s, j + 1), Append(acc, m))
                      ELSE IF s[j] = "}"
                      THEN ParseOk(JsonValue("object", <<>>, Append(acc, m)),
                                   j + 1)
                      ELSE ParseFail

\* serde_json::from_str::<Value>: one value, whitespace around it allowed,
\* nothing else after it
FromStr(s) ==
    LET v == ParseValue(s, SkipWs(s, 1))
    IN  IF v.ok /\ SkipWs(s, v.next) = Len(s) + 1 THEN v ELSE ParseFail

\* Value::get(name): the member of an object with this name (the last one
\* when the name repeats, as Map::insert replaces), None for other values
RECURSIVE Lookup(_, _, _)
Lookup(members, name, found) ==
    IF members = <<>> THEN found
    ELSE Lookup(Tail(members), name,
                IF Head(members)[1] = name
                THEN [some |-> TRUE, val |-> Head(members)[2]]
                ELSE found)
None == [some |-> FALSE, val |-> JsonNull]
Get(v, name) == IF v.t = "object" THEN Lookup(v.items, name, None) ELSE None
\* Value::as_str
AsStr(o) == IF o.some /\ o.val.t = "string"
            THEN [some |-> TRUE, val |-> o.val.s]
            ELSE [some |-> FALSE, val |-> <<>>]

ErrorKey == <<"e", "r", "r", "o", "r">>

\* mutant: any JSON string found under "error" or as the whole body
ErrorMessage_BareString(text) ==
    LET error_json == FromStr(text)
    IN  IF error_json.ok /\ error_json.val.t = "string"
        THEN error_json.val.s
        ELSE IF error_json.ok /\ AsStr(Get(error_json.val, ErrorKey)).some
        THEN AsStr(Get(error_json.val, ErrorKey)).val
        ELSE text

\* client.rs lines 502-509: the message handed to from_status
ErrorMessage(text) ==
    LET error_json == FromStr(text)
        message == IF error_json.ok
                   THEN AsStr(Get(error_json.val, ErrorKey))
                   ELSE AsStr(None)
    IN  IF message.some THEN message.val ELSE text

\* client.rs lines 500-510
parse_error_response(status, text) == from_status(status, ErrorMessage(text))

\* mutant: redirections counted as success
IsSuccess_Redirects(status) == 200 <= status /\ status <= 399

\* StatusCode::is_success
IsSuccess(status) == 200 <= status /\ status <= 299

\* ------------------------------------------------------ response bodies
\* how a server writes a JSON string: quotes and backslashes escaped
RECURSIVE Escape(_)
Escape(cs) ==
    IF cs = <<>> THEN <<>>
    ELSE (IF Head(cs) \in {Quote, Backslash}
          THEN <<Backslash, Head(cs)>>
          ELSE <<Head(cs)>>) \o Escape(Tail(cs))
JsonString(cs) == <<Quote>> \o Escape(cs) \o <<Quote>>
Member(name, value) == JsonString(name) \o <<":">> \o value
Object(members) == <<"{">> \o members \o <<"}">>

MessageSamples == {<<"b", "o", "o", "m">>, <<"a", Quote, "b", Backslash>>, <<>>}

\* the shapes of body whose "error" member is a string
StringErrorKinds ==
    {"error_string", "error_string_spaced", "error_after_code",
     "repeated_string_last"}
\* the shapes of body that are JSON without a string "error" member
OtherJsonKinds ==
    {"error_number", "error_null", "error_object", "error_array",
     "no_error_member", "other_name", "array", "json_string", "json_number",
     "repeated_number_last"}
\* the shapes of body that are not JSON
NotJsonKinds == {"plain", "truncated", "trailing", "empty"}
BodyKinds == StringErrorKinds \cup OtherJsonKinds \cup NotJsonKinds

\* the text of a body of shape kind around the message m
BodyText(kind, m) ==
    CASE kind = "error_string" ->
            Object(Member(ErrorKey, JsonString(m)))
      [] kind = "error_string_spaced" ->
            <<" ", "{", " ">> \o JsonString(ErrorKey) \o <<" ", ":", "\n">>
                \o JsonString(m) \o <<" ", "}", "\n">>
      [] kind = "error_after_code" ->
            Object(Member(<<"c">>, <<"-", "7", ".", "5", "e", "2">>) \o <<",">>
                       \o Member(ErrorKey, JsonString(m)))
      [] kind = "repeated_string_last" ->
            Object(Member(ErrorKey, <<"1">>) \o <<",">>
                       \o Member(ErrorKey, JsonString(m)))
      [] kind = "repeated_number_last" ->
            Object(Member(ErrorKey, JsonString(m)) \o <<",">>
                       \o Member(ErrorKey, <<"1">>))
      [] kind = "error_number" -> Object(Member(ErrorKey, <<"4", "2">>))
      [] kind = "error_null" ->
            Object(Member(ErrorKey, <<"n", "u", "l", "l">>))
      [] kind = "error_object" ->
            Object(Member(ErrorKey, Object(Member(ErrorKey, JsonString(m)))))
      [] kind = "error_array" ->
            Object(Member(ErrorKey, <<"[">> \o JsonString(m) \o <<"]">>))
      [] kind = "no_error_member" -> Object(Member(<<"m">>, JsonString(m)))
      [] kind = "other_name" ->
            Object(Member(<<"E", "r", "r", "o", "r">>, JsonString(m)))
      [] kind = "array" ->
            <<"[">> \o Object(Member(ErrorKey, JsonString(m))) \o <<"]">>
      [] kind = "json_string" -> JsonString(m)
      [] kind = "json_number" -> <<"4", "0", "4">>
      [] kind = "plain" -> <<"N", "o", "t", " ">> \o m
      [] kind = "truncated" ->
            <<"{">> \o Member(ErrorKey, JsonString(m))
      [] kind = "trailing" ->
            Object(Member(ErrorKey, JsonString(m))) \o <<"x">>
      [] kind = "empty" -> <<>>

\* the status codes drawn: every class of from_status and its neighbours
StatusSamples ==
    {0, 99, 100, 199, 200, 201, 204, 299, 300, 304, 399, 400, 401, 403, 404,
     405, 409, 410, 422, 429, 499, 500, 502, 503, 599, 600, 999, 1000, 65535}
\* http::StatusCode holds 100..=999
HttpStatuses == {s \in StatusSamples : 100 <= s /\ s <= 999}

RequestPaths == {"handle_response", "handle_empty_response", "search",
                 "get_vector"}

\* the reqwest::Error of a failed send and of a failed read of the body
SendError == [tag |-> "Err", kind |-> "Http", msg |-> <<"send">>]
BodyError == [tag |-> "Err", kind |-> "Http", msg |-> <<"body">>]
OkUnit == [tag |-> "Ok", value |-> "()"]
OkNone == [tag |-> "Ok", value |-> "None"]
OkSome == [tag |-> "Ok", value |-> "Some"]
OkParsed == [tag |-> "Ok", value |-> "T"]
ParseError(text) ==
    [tag |-> "Err", kind |-> "InvalidResponse",
     msg |-> <<"Failed to parse response">> \o text]

InitHttp ==
    /\ usizeBits = 64
    /\ overflowChecks = FALSE
    /\ IdleUpload
    /\ IdleDecode
    /\ hpc = "call"
    /\ read_failed = FALSE
    /\ called = FALSE
    /\ passed = <<>>
    /\ hresult = NoResult
    /\ \/ /\ path = "from_status"
          /\ response_status \in StatusSamples
          /\ response_body \in MessageSamples
          /\ bodyKind = "none"
          /\ bodyMessage = <<>>
       \/ /\ path \in RequestPaths
          /\ response_status \in HttpStatuses
          /\ bodyKind \in BodyKinds
          /\ bodyMessage \in MessageSamples
          /\ response_body = BodyText(bodyKind, bodyMessage)

\* error.rs lines 56-67: a call of the public function from_status
CallFromStatus ==
    /\ path = "from_status"
    /\ hpc = "call"
    /\ hpc' = "done"
    /\ called' = TRUE
    /\ passed' = response_body
    /\ hresult' = from_status(response_status, response_body)
    /\ UNCHANGED <<buildVars, uploadVars, decodeVars, path, response_status,
                   response_body, read_failed, bodyKind, bodyMessage>>

\* send().await returns a response
SendOk ==
    /\ path \in RequestPaths
    /\ hpc = "call"
    /\ hpc' = "response"
    /\ UNCHANGED <<buildVars, uploadVars, decodeVars, path, response_status,
                   response_body, read_failed, called, passed, hresult,
                   bodyKind, bodyMessage>>

\* send().await? returns early with the transport's error
SendFail ==
    /\ path \in RequestPaths
    /\ hpc = "call"
    /\ hpc' = "done"
    /\ hresult' = SendError
    /\ UNCHANGED <<buildVars, uploadVars, decodeVars, path, response_status,
                   response_body, read_failed, called, passed, bodyKind,
                   bodyMessage>>

\* client.rs lines 142-146: search() looks at the status; on success the
\* body goes to the decoder (lines 148-189, SpecDecode)
Search ==
    /\ path = "search"
    /\ hpc = "response"
    /\ IF IsSuccess(response_status)
       THEN /\ hpc' = "decode"
            /\ UNCHANGED <<read_failed, called, passed, hresult>>
       ELSE \E readOk \in BOOLEAN :
               /\ hpc' = "done"
               /\ read_failed' = ~readOk
               /\ called' = readOk
               /\ passed' = IF readOk THEN ErrorMessage(response_body)
                            ELSE passed
               /\ hresult' = IF readOk
                             THEN parse_error_response(response_status,
                                                       response_body)
                             ELSE BodyError
    /\ UNCHANGED <<buildVars, uploadVars, decodeVars, path, response_status,
                   response_body, bodyKind, bodyMessage>>

\* client.rs lines 197-201: get_vector() answers 404 itself and passes
\* every other response to handle_response
GetVector ==
    /\ path = "get_vector"
    /\ hpc = "response"
    /\ IF response_status = 404
       THEN /\ hpc' = "done"
            /\ hresult' = OkNone
       ELSE /\ hpc' = "handle"
            /\ UNCHANGED hresult
    /\ UNCHANGED <<buildVars, uploadVars, decodeVars, path, response_status,
                   response_body, read_failed, called, passed, bodyKind,
                   bodyMessage>>

\* client.rs lines 470-484 (and 202 for get_vector): handle_response
HandleResponse ==
    /\ \/ path = "handle_response" /\ hpc = "response"
       \/ path = "get_vector" /\ hpc = "handle"
    /\ hpc' = "done"
    /\ \E readOk \in BOOLEAN, shapeOk \in BOOLEAN :
          /\ read_failed' = ~readOk
          /\ called' = (readOk /\ ~IsSuccess(response_status))
          /\ passed' = IF readOk /\ ~IsSuccess(response_status)
                       THEN ErrorMessage(response_body)
                       ELSE passed
          /\ hresult' =
                IF ~readOk THEN BodyError
                ELSE IF IsSuccess(response_status)
                THEN IF FromStr(response_body).ok /\ shapeOk
                     THEN IF path = "get_vector" THEN OkSome ELSE OkParsed
                     ELSE ParseError(response_body)
                ELSE parse_error_response(response_status, response_body)
    /\ UNCHANGED <<buildVars, uploadVars, decodeVars, path, response_status,
                   response_body, bodyKind, bodyMessage>>

\* client.rs lines 487-496: handle_empty_response
HandleEmptyResponse ==
    /\ path = "handle_empty_response"
    /\ hpc = "response"
    /\ hpc' = "done"
    /\ IF IsSuccess(response_status)
       THEN /\ hresult' = OkUnit
            /\ UNCHANGED <<read_failed, called, passed>>
       ELSE \E readOk \in BOOLEAN :
               /\ read_failed' = ~readOk
               /\ called' = readOk
               /\ passed' = IF readOk THEN ErrorMessage(response_body)
                            ELSE passed
               /\ hresult' = IF readOk
                             THEN parse_error_response(response_status,
                                                       response_body)
                             ELSE BodyError
    /\ UNCHANGED <<buildVars, uploadVars, decodeVars, path, response_status,
                   response_body, bodyKind, bodyMessage>>

NextHttp ==
    \/ CallFromStatus
    \/ SendOk
    \/ SendFail
    \/ Search
    \/ GetVector
    \/ HandleResponse
    \/ HandleEmptyResponse

SpecHttp == InitHttp /\ [][NextHttp]_vars

\* ============================================================== claims
IsPrefix(p, q) == Len(p) <= Len(q) /\ SubSeq(q, 1, Len(p)) = p
Pending == Len(produced) - Len(consumed)
Invalid == dimension = 0 \/ Len(vectors) % dimension # 0
ProducerCompleted == ppc = "done" /\ ~sendFailed

RECURSIVE ConcatData(_)
ConcatData(msgs) ==
    IF msgs = <<>> THEN <<>>
    ELSE IF Head(msgs).type = "Data"
         THEN Head(msgs).vector \o ConcatData(Tail(msgs))
         ELSE ConcatData(Tail(msgs))

\* C1: at every moment the messages dequeued by the transport are a prefix
\* of the production order, the first is the Header, every later one is a
\* Data message whose chunk_index is its position among the Data messages,
\* and there are never more than 1 + total_chunks of them.
C1_WireOrder ==
    /\ IsPrefix(consumed, produced)
    /\ Len(consumed) <= 1 + ToInt(total_chunks)
    /\ \A i \in 1..Len(consumed) :
          IF i = 1
          THEN consumed[i].type = "Header"
          ELSE /\ consumed[i].type = "Data"
               /\ consumed[i].chunk_index = FromInt(i - 2)

C1_Witness ==
    /\ Len(consumed) >= 4
    /\ chan # <<>>
    /\ ppc = "chunks"

\* C2: the messages produced and not yet dequeued never exceed the channel
\* capacity of 4, and while 4 are pending no step completes another send.
C2_Backpressure ==
    /\ [](Pending <= ChannelCapacity)
    /\ [][Pending = ChannelCapacity => produced' = produced]_vars

C2_Witness ==
    /\ Len(chan) = ChannelCapacity
    /\ ppc = "chunks"
    /\ ~rxClosed

\* C3: once the receiving half is closed no message is enqueued any more,
\* the next step of a producer that still has a send to make is a failed
\* send after which it has terminated, and the failed send changes neither
\* the caller's position nor its result.
C3_ProducerStopsOnClose ==
    /\ [](sendFailed => ppc = "done" /\ txDropped)
    /\ [][rxClosed => produced' = produced /\ chan' = chan]_vars
    /\ [][(rxClosed /\ ppc \in {"header", "chunks"} /\ ppc' # ppc)
            => (sendFailed' /\ ppc' = "done")]_vars
    /\ [][sendFailed' # sendFailed => (result' = result /\ cpc' = cpc)]_vars

C3_Witness ==
    /\ sendFailed
    /\ Len(produced) >= 2
    /\ Len(produced) < 1 + ToInt(total_chunks)

C5_Coverage == ProducerCompleted => ConcatData(produced) = vectors

\* C6: once an upload has passed validation, total_chunks is
\* ceil(buffer length / max(requested chunk_floats, dimension)), and the
\* call has not been given up for any requested chunk_floats.
ExactCeil(n, d) == Div(Add(FromInt(n), Sub(d, One)), d)
C6_TotalChunks ==
    (cpc # "start" /\ ~Invalid) =>
        /\ cpc # "panicked"
        /\ chunk_floats = MaxBig(req_chunk_floats, FromInt(dimension))
        /\ total_chunks = ExactCeil(Len(vectors), chunk_floats)

\* C7: an upload with dimension 0 or a buffer that is not a whole number of
\* vectors ends at its first step with an error, and never opens a
\* connection, creates the channel, starts the producer or produces a
\* message.
C7_ValidationFirst ==
    Invalid =>
        /\ cpc \in {"start", "done"}
        /\ cpc = "done" => result.tag = "Err"
        /\ ~connOpened
        /\ ~chanCreated
        /\ ppc = "none"
        /\ produced = <<>>

C7_Witness ==
    /\ cpc = "done"
    /\ dimension > 1
    /\ Len(vectors) % dimension # 0

\* C8: a validation failure is reported with a kind of its own, not with
\* the kind that the search decoder uses for a malformed response.
DecodeErrorKind == "InvalidResponse"
C8_DistinctKind ==
    (cpc = "done" /\ Invalid) => result.kind # DecodeErrorKind

\* the count field of the body and the length it announces, in exact
\* arithmetic
CountField == FromLeBytes(SubSeq(buf, 1, HeaderBytes))
ExactExpectedLen == Add(FromInt(HeaderBytes), Mul(CountField, RecordBytes))
PastLengthCheck == spc \notin {"start", "count", "length"}

\* C9: the decoder never reads past the end of the body and never panics;
\* a body shorter than 4 bytes gives the "too short" failure before any
\* read; a body of at least 4 bytes but fewer than 4 + 8 * count gives the
\* "truncated" failure before any record is read; and expected_len is
\* 4 + 8 * count without wrap-around.
C9_BoundsSafety ==
    /\ \A i \in reads : i < Len(buf)
    /\ spc # "panicked"
    /\ (Len(buf) < HeaderBytes /\ spc # "start") =>
          /\ spc = "done"
          /\ sresult = TooShortError
          /\ reads = {}
          /\ results = <<>>
    /\ (Len(buf) >= HeaderBytes /\ PastLengthCheck) =>
          expected_len = ExactExpectedLen
    /\ (Len(buf) >= HeaderBytes /\ PastLengthCheck
            /\ Less(FromInt(Len(buf)), ExactExpectedLen)) =>
          /\ spc = "done"
          /\ sresult = TruncatedError(ExactExpectedLen, Len(buf))
          /\ sresult # TooShortError
          /\ reads \subseteq 0..(HeaderBytes - 1)
          /\ results = <<>>

\* C9 on the targets where it holds: usize of 64 bits
C9_On64Bit == usizeBits = 64 => C9_BoundsSafety

\* C10: a body encoded from records, whatever bytes follow it, decodes to
\* exactly these records in the same order; no byte after offset
\* 4 + 8 * count is read.
C10_RoundTrip ==
    wellFormed =>
        /\ spc # "panicked"
        /\ spc = "done" => sresult = [tag |-> "Ok", value |-> records]
        /\ \A i \in reads : i < HeaderBytes + RecordBytes * Len(records)
        /\ IsPrefix(results, records)

C10_Witness ==
    /\ wellFormed
    /\ spc = "done"
    /\ Len(records) = 2
    /\ records[1] # records[2]
    /\ trailing # <<>>
    /\ sresult = [tag |-> "Ok", value |-> records]

\* ------------------------------------------------------ error reporting
Boom == <<"b", "o", "o", "m">>
HttpText(status, message) ==
    <<"H", "T", "T", "P", " ">> \o Decimal(status) \o <<":", " ">> \o message
NonSuccess == response_status < 200 \/ response_status > 299
Responded == path \in RequestPaths /\ hpc = "done" /\ hresult # SendError

\* C11: from_status gives a result for every status code: 400 is Client
\* with status and message kept, 404 CollectionNotFound and 405
\* OperationNotAllowed with the message kept, 409 IndexAlreadyExists
\* whatever the message, 500..599 Server with status and message kept, and
\* every other code Unknown with the text "HTTP <status>: <message>".
C11_FromStatusTotal ==
    /\ called =>
          /\ hresult.tag = "Err"
          /\ response_status = 400 =>
                hresult = [tag |-> "Err", kind |-> "Client", status |-> 400,
                           message |-> passed]
          /\ response_status = 404 =>
                hresult = [tag |-> "Err", kind |-> "CollectionNotFound",
                           message |-> passed]
          /\ response_status = 405 =>
                hresult = [tag |-> "Err", kind |-> "OperationNotAllowed",
                           message |-> passed]
          /\ response_status = 409 =>
                hresult = [tag |-> "Err", kind |-> "IndexAlreadyExists"]
          /\ (500 <= response_status /\ response_status <= 599) =>
                hresult = [tag |-> "Err", kind |-> "Server",
                           status |-> response_status, message |-> passed]
          /\ (response_status \notin {400, 404, 405, 409}
                /\ (response_status < 500 \/ response_status > 599)) =>
                hresult = [tag |-> "Err", kind |-> "Unknown",
                           message |-> HttpText(response_status, passed)]
    /\ \A m1 \in MessageSamples, m2 \in MessageSamples :
          from_status(409, m1) = from_status(409, m2)
    /\ \A s \in {200, 201, 204, 999} :
          from_status(s, Boom).kind = "Unknown"
    /\ from_status(999, Boom).message =
          <<"H", "T", "T", "P", " ", "9", "9", "9", ":", " ",
            "b", "o", "o", "m">>

C11_Witness ==
    /\ path = "from_status"
    /\ called
    /\ response_status = 599
    /\ hresult.kind = "Server"
    /\ passed # <<>>

\* C12 as stated: every 4xx status code other than 404, 405 and 409 is
\* reported as Client, never as Unknown.
C12_ClientFor4xx ==
    (called /\ 400 <= response_status /\ response_status <= 499
        /\ response_status \notin {404, 405, 409}) =>
        hresult.kind = "Client"

\* C12: of the 4xx status codes only 400 is reported as Client; every 4xx
\* code other than 400, 404, 405 and 409 is reported as Unknown with the
\* text "HTTP <status>: <message>".
C12_ClientOnlyFor400 ==
    (called /\ 400 <= response_status /\ response_status <= 499) =>
        /\ hresult.kind = "Client" <=> response_status = 400
        /\ response_status \notin {400, 404, 405, 409} =>
              hresult = [tag |-> "Err", kind |-> "Unknown",
                         message |-> HttpText(response_status, passed)]

C12_Witness ==
    /\ called
    /\ response_status = 401
    /\ hresult.kind = "Unknown"
    /\ passed = Boom

\* C13 as stated: on every request path a response with a non-2xx status
\* gives exactly the Err that parse_error_response returns for this status
\* and body.
C13_NonSuccessIsMapped ==
    (Responded /\ NonSuccess) =>
        hresult = parse_error_response(response_status, response_body)

\* C13: on every request path a response with a non-2xx status gives
\* exactly the Err that parse_error_response returns for this status and
\* body, with two exceptions: get_vector answers 404 with Ok(None), and a
\* body that cannot be read gives the transport's error.
C13_NonSuccessIsMappedExcept ==
    (Responded /\ NonSuccess) =>
        IF path = "get_vector" /\ response_status = 404
        THEN hresult = OkNone
        ELSE IF read_failed
        THEN hresult = BodyError
        ELSE /\ called
             /\ hresult.tag = "Err"
             /\ hresult = parse_error_response(response_status, response_body)

C13_Witness ==
    /\ path = "get_vector"
    /\ hpc = "done"
    /\ response_status = 503
    /\ bodyKind = "error_string"
    /\ hresult = [tag |-> "Err", kind |-> "Server", status |-> 503,
                  message |-> Boom]

\* C14: the message handed to from_status is the value of the body's
\* "error" member when the body is a JSON object whose "error" member is a
\* string, and the body text unchanged in every other case.
C14_MessageChoice ==
    (called /\ path \in RequestPaths) =>
        /\ bodyKind \in StringErrorKinds => passed = bodyMessage
        /\ bodyKind \notin StringErrorKinds => passed = response_body

C14_Witness ==
    /\ called
    /\ bodyKind = "error_string_spaced"
    /\ bodyMessage = <<"a", Quote, "b", Backslash>>
    /\ passed = bodyMessage
    /\ passed # response_body

C14_WitnessRaw ==
    /\ called
    /\ bodyKind = "error_object"
    /\ passed = response_body

\* ------------------------------------------------- outcome of an upload
Accepted == ~Invalid /\ cpc # "start"
Returned == cpc \notin {"start", "connecting", "connected", "awaiting",
                        "abandoned"}
OkFromRemote ==
    /\ result.tag = "Ok"
    /\ result.success = TRUE
    /\ <<result.total_vectors, result.total_chunks>> \in RemoteCounts

\* C15: an upload that passed validation and is over has returned either
\* Ok with success = true and the counts of the remote response, or
\* Err(Grpc); it has ended in no other way.
C15_Outcomes ==
    (Accepted /\ Returned) =>
        /\ cpc = "done"
        /\ OkFromRemote \/ result = GrpcError

\* C15 apart from the panic of line 308: the result of a returned upload
\* is Ok from the remote response or Err(Grpc); Ok arises only from the
\* step that receives the response, Err(Grpc) only from a failed connect
\* or a failed await; the connection is attempted once and a returned call
\* takes no further step.
C15_OutcomesWhenReturned ==
    /\ []((Accepted /\ cpc = "done") => (OkFromRemote \/ result = GrpcError))
    /\ [][(result' # result /\ result'.tag = "Ok") =>
              cpc = "awaiting"]_vars
    /\ [][(result' # result /\ result' = GrpcError) =>
              cpc \in {"connecting", "awaiting"}]_vars
    /\ [][connOpened => cpc' # "connecting"]_vars
    /\ [][cpc = "done" => (cpc' = "done" /\ result' = result)]_vars

C15_Witness ==
    /\ cpc = "done"
    /\ result.tag = "Ok"
    /\ result.total_chunks # ToInt(total_chunks)
    /\ Len(consumed) < Len(produced)

\* ---------------------------------------------------------- liveness
ProducerRunning == ppc \in {"header", "chunks"}
ProducerBlocked == ProducerRunning /\ ~rxClosed /\ ~HasCapacity(chan)
ConsumerStarved ==
    /\ chanCreated
    /\ cpc = "awaiting"
    /\ ~rxClosed
    /\ chan = <<>>
    /\ ~txDropped

\* C16: when the producer is polled while it can take a step and the
\* transport takes a message that stays available or closes the channel,
\* a running producer eventually terminates, the producer is never blocked
\* on a full channel forever, and the transport never waits forever on an
\* empty channel whose sender is never dropped.
C16_NoDeadlock ==
    /\ ProducerRunning ~> ~ProducerRunning
    /\ []<>~ProducerBlocked
    /\ []<>~ConsumerStarved

\* the state predicate used for the producer's fairness is its ENABLED
ProducerEnabledIsEnabled == ProducerEnabled <=> ENABLED <<ProducerStep>>_vars

C16_Witness ==
    /\ ProducerBlocked
    /\ ppc = "chunks"
    /\ Len(consumed) >= 1
    /\ Less(FromInt(chunk_idx + 1), total_chunks)

\* ------------------------------------------------------ end of stream
\* C17: the sending end is released only when the producer has finished,
\* and when the transport sees the end of the stream it has dequeued the
\* Header and all total_chunks Data messages, in order: it never sees the
\* end after a strict prefix of them.
C17_EndAfterAll ==
    /\ txDropped => ppc \in {"done", "panicked"}
    /\ streamEnded =>
          /\ ppc = "done"
          /\ ~sendFailed
          /\ consumed = produced
          /\ Len(consumed) = 1 + ToInt(total_chunks)
          /\ consumed[1].type = "Header"
          /\ consumed[1].total_chunks = total_chunks
          /\ \A i \in 2..Len(consumed) :
                /\ consumed[i].type = "Data"
                /\ consumed[i].chunk_index = FromInt(i - 2)

C17_Witness ==
    /\ streamEnded
    /\ cpc = "awaiting"
    /\ Len(consumed) > ChannelCapacity + 1

\* ------------------------------------------------------------ planning
Planned == Accepted /\ cpc # "panicked"
EffectiveChunkFloats == MaxBig(req_chunk_floats, FromInt(dimension))
IsMultiple(a, k) == Mul(Div(a, FromInt(k)), k) = a

\* C18: for an upload that passed validation with a non-empty buffer,
\* whatever chunk_floats was requested, computing total_chunks and the end
\* of each chunk does not overflow, total_chunks is at least 1, and a
\* chunk_floats of at least the buffer length gives exactly one Data chunk
\* that holds the whole buffer.
C18_NoOverflow ==
    (Accepted /\ vectors # <<>>) =>
        /\ cpc # "panicked"
        /\ ppc # "panicked"
        /\ ~TotalChunks(TotalFloats, EffectiveChunkFloats, usizeBits).ovf
        /\ Less(Zero, total_chunks)
        /\ \A i \in 0..(Len(produced) - 2) :
              LET start == Mul(chunk_floats, i)
              IN  /\ Fits(start, usizeBits)
                  /\ Fits(Add(start, chunk_floats), usizeBits)
        /\ ~Less(EffectiveChunkFloats, FromInt(TotalFloats)) =>
              /\ total_chunks = One
              /\ ProducerCompleted =>
                    /\ Len(produced) = 2
                    /\ produced[2].vector = vectors

\* C18 for the requests that stay clear of the overflow: chunk_floats of at
\* most usize::MAX - buffer length
C18_WhenSumFits ==
    Fits(Add(FromInt(TotalFloats), EffectiveChunkFloats), usizeBits) =>
        C18_NoOverflow

\* C19: the u32 fields of the messages are the caller-side values: the
\* Header carries the dimension, the number of planned chunks and
\* max(1, chunk_floats / dimension), and each Data message its position.
C19_FieldsNotTruncated ==
    (Planned /\ produced # <<>>) =>
        /\ dimension > 0
        /\ produced[1].dimension = FromInt(dimension)
        /\ produced[1].total_chunks = total_chunks
        /\ produced[1].max_vectors_per_chunk =
              MaxBig(One, Div(chunk_floats, FromInt(dimension)))
        /\ \A i \in 2..Len(produced) :
              produced[i].chunk_index = FromInt(i - 2)

\* C19 on the targets where usize has the width of u32
C19_On32Bit == usizeBits = 32 => C19_FieldsNotTruncated

C20_WitnessSplit ==
    /\ ProducerCompleted
    /\ dimension = 2
    /\ chunk_floats = FromInt(3)
    /\ Len(produced) = 3
    /\ Len(produced[2].vector) = 3

====
